---- MODULE Spec2Model ----
(***************************************************************************)
(* A model of the nougat question-synthesis service (src/main.py): one     *)
(* FastAPI process whose routes build a prompt, call an external           *)
(* completion API and relay the result.  Texts are sequences of one-       *)
(* character strings, so that splitting, fence stripping and JSON parsing  *)
(* are computed the way the code computes them.                            *)
(***************************************************************************)
EXTENDS Naturals, Integers, Sequences, FiniteSets, TLC

VARIABLES pc, route, body, vid, fetched, steps, calls, upstream, download, caught,
          detail, outcome, files, tmp, fpc, fdoc, raw, cleaned, loaded

vars == <<pc, route, body, vid, fetched, steps, calls, upstream, download, caught,
          detail, outcome, files, tmp, fpc, fdoc, raw, cleaned, loaded>>

reqVars == <<pc, route, body, vid, fetched, steps, calls, upstream, download, caught,
             detail, outcome, files, tmp>>

fenceVars == <<fpc, fdoc, raw, cleaned, loaded>>

-----------------------------------------------------------------------------
(* Bounds of the model.                                                    *)

\* requests the process handles, one after the other
NumReqs == 2
\* largest number_of_questions a generation request asks for
MaxQuestions == 1
\* most notes in a downloaded deck
MaxNotes == 2
\* longest string value of a JSON document given to feynman's fence stripping
MaxBody == 3

-----------------------------------------------------------------------------
(* Texts.                                                                  *)

\* the backtick character (a string literal cannot hold one, so it is written ')
BT == "'"
QT == "\""
WS == " "

Fence == <<BT, BT, BT>>
FenceJson == <<BT, BT, BT, "j", "s", "o", "n">>

\* all sequences over S of length at most n
SeqsUpTo(S, n) == UNION {[1..k -> S] : k \in 0..n}

\* text[i..] starts with the pattern p
StartsAt(text, i, p) ==
    /\ i + Len(p) - 1 <= Len(text)
    /\ \A k \in 1..Len(p) : text[i + k - 1] = p[k]

\* str.split(sep) for a one-character separator: the pieces between separators
RECURSIVE SplitFrom(_, _, _, _)
SplitFrom(text, sep, i, piece) ==
    IF i > Len(text) THEN <<piece>>
    ELSE IF text[i] = sep
         THEN <<piece>> \o SplitFrom(text, sep, i + 1, <<>>)
         ELSE SplitFrom(text, sep, i + 1, Append(piece, text[i]))

Split(text, sep) == SplitFrom(text, sep, 1, <<>>)

\* re.sub of three backticks with an optional "json" after them: leftmost non-overlapping matches removed,
\* the optional group taken whenever it matches
RECURSIVE ReSubFrom(_, _)
ReSubFrom(text, i) ==
    IF i > Len(text) THEN <<>>
    ELSE IF StartsAt(text, i, FenceJson) THEN ReSubFrom(text, i + 7)
    ELSE IF StartsAt(text, i, Fence) THEN ReSubFrom(text, i + 3)
    ELSE <<text[i]>> \o ReSubFrom(text, i + 1)

re_sub_fence(text) == ReSubFrom(text, 1)

\* str.replace of three backticks by the empty string
RECURSIVE ReplaceFrom(_, _)
ReplaceFrom(text, i) ==
    IF i > Len(text) THEN <<>>
    ELSE IF StartsAt(text, i, Fence) THEN ReplaceFrom(text, i + 3)
    ELSE <<text[i]>> \o ReplaceFrom(text, i + 1)

replace_fence(text) == ReplaceFrom(text, 1)

\* str.strip(): leading and trailing whitespace removed
RECURSIVE strip(_)
strip(text) ==
    IF text = <<>> THEN text
    ELSE IF Head(text) = WS THEN strip(Tail(text))
    ELSE IF text[Len(text)] = WS THEN strip(SubSeq(text, 1, Len(text) - 1))
    ELSE text

\* feynman, line 280
CleanFences(raw_content) == strip(replace_fence(re_sub_fence(raw_content)))

-----------------------------------------------------------------------------
(* JSON values and json.loads, for the documents the model uses: strings   *)
(* without escapes, numbers written with the digit 1, and arrays.          *)

JStr(s) == [t |-> "str", s |-> s, items |-> <<>>]
JNum(s) == [t |-> "num", s |-> s, items |-> <<>>]
JArr(items) == [t |-> "arr", s |-> <<>>, items |-> items]
JInvalid == [t |-> "invalid", s |-> <<>>, items |-> <<>>]

NoParse == [ok |-> FALSE, val |-> JInvalid, next |-> 0]

RECURSIVE SkipWs(_, _)
SkipWs(text, i) ==
    IF i <= Len(text) /\ text[i] = WS THEN SkipWs(text, i + 1) ELSE i

\* index of the first character at or after i that is c, 0 when there is none
RECURSIVE Find(_, _, _)
Find(text, i, c) ==
    IF i > Len(text) THEN 0
    ELSE IF text[i] = c THEN i
    ELSE Find(text, i + 1, c)

RECURSIVE DigitsEnd(_, _)
DigitsEnd(text, i) ==
    IF i <= Len(text) /\ text[i] = "1" THEN DigitsEnd(text, i + 1) ELSE i

RECURSIVE ParseValue(_, _)
RECURSIVE ParseItems(_, _, _)

\* the value that starts at text[i]: [ok, val, next]
ParseValue(text, i) ==
    IF i > Len(text) THEN NoParse
    ELSE IF text[i] = QT
         THEN LET e == Find(text, i + 1, QT)
              IN  IF e = 0 THEN NoParse
                  ELSE [ok |-> TRUE, val |-> JStr(SubSeq(text, i + 1, e - 1)),
                        next |-> e + 1]
    ELSE IF text[i] = "1"
         THEN LET e == DigitsEnd(text, i)
              IN  [ok |-> TRUE, val |-> JNum(SubSeq(text, i, e - 1)), next |-> e]
    ELSE IF text[i] = "["
         THEN LET j == SkipWs(text, i + 1)
              IN  IF j <= Len(text) /\ text[j] = "]"
                  THEN [ok |-> TRUE, val |-> JArr(<<>>), next |-> j + 1]
                  ELSE ParseItems(text, j, <<>>)
    ELSE NoParse

\* the rest of an array whose next item starts at text[i]
ParseItems(text, i, acc) ==
    LET v == ParseValue(text, i)
    IN  IF ~v.ok THEN NoParse
        ELSE LET j == SkipWs(text, v.next)
             IN  IF j > Len(text) THEN NoParse
                 ELSE IF text[j] = "]"
                      THEN [ok |-> TRUE, val |-> JArr(Append(acc, v.val)),
                            next |-> j + 1]
                 ELSE IF text[j] = ","
                      THEN ParseItems(text, SkipWs(text, j + 1), Append(acc, v.val))
                 ELSE NoParse

\* json.loads(text): the value of the document, or JInvalid when it raises
json_loads(text) ==
    LET v == ParseValue(text, SkipWs(text, 1))
    IN  IF v.ok /\ SkipWs(text, v.next) > Len(text) THEN v.val ELSE JInvalid

\* json.dumps for the same values
RECURSIVE json_dumps(_)
RECURSIVE DumpItems(_)
json_dumps(v) ==
    IF v.t = "str" THEN <<QT>> \o v.s \o <<QT>>
    ELSE IF v.t = "num" THEN v.s
    ELSE <<"[">> \o DumpItems(v.items) \o <<"]">>

DumpItems(items) ==
    IF items = <<>> THEN <<>>
    ELSE IF Len(items) = 1 THEN json_dumps(items[1])
    ELSE json_dumps(items[1]) \o <<",">> \o DumpItems(Tail(items))

-----------------------------------------------------------------------------
(* Routes, requests and the answers of the outside world.                  *)

Reqs == 1..NumReqs

\* routes that go through call_openrouter
GenRoutes == {"mcqtext", "tftext", "fitb", "cards", "keyterms"}
\* routes that post to the completion API themselves
InlineRoutes == {"feynman", "transcriptify", "chatbot", "summarize"}
PromptRoutes == GenRoutes \cup InlineRoutes
PostRoutes == PromptRoutes \cup {"import-anki"}
Routes == PostRoutes \cup {"root"}

\* the key a generation route wraps the result in
ResponseKey(rt) ==
    CASE rt \in {"mcqtext", "tftext", "fitb"} -> "questions"
      [] rt = "cards" -> "cards"
      [] rt = "keyterms" -> "terms"
      [] rt = "transcriptify" -> "transcript"
      [] rt \in {"chatbot", "summarize"} -> "result"
      [] rt = "root" -> "message"
      [] OTHER -> ""

\* the text each except clause puts before str(e)
ErrorPrefix(rt) ==
    CASE rt = "mcqtext" -> "MCQ generation error: "
      [] rt = "tftext" -> "True/False generation error: "
      [] rt = "fitb" -> "Fill-in-the-blank generation error: "
      [] rt = "cards" -> "Card generation error: "
      [] rt = "keyterms" -> "Keyterm generation error: "
      [] rt = "feynman" -> "Feynman evaluation error: "
      [] rt = "transcriptify" -> "Transcriptify error: "
      [] rt = "import-anki" -> "Anki import error: "
      [] OTHER -> ""

ChatbotDetail == "Chatbot functionality failed"

\* request texts of transcriptify: without "=", with one, with two
Texts == {<<"u">>, <<"u", "=", "v">>, <<"u", "=", "v", "=", "w">>}

\* request bodies: the fields that decide what a handler does
EmptyBody == [nq |-> 0, text |-> <<>>]
Bodies(rt) ==
    IF rt \in GenRoutes \ {"keyterms"}
    THEN {[nq |-> n, text |-> <<>>] : n \in 1..MaxQuestions}
    ELSE IF rt = "transcriptify"
    THEN {[nq |-> 0, text |-> t] : t \in Texts}
    ELSE {EmptyBody}

\* a JSON array of k numbers, as text
RECURSIVE Ones(_)
Ones(k) == IF k = 0 THEN <<>> ELSE Append(Ones(k - 1), JNum(<<"1">>))
ListText(k) == json_dumps(JArr(Ones(k)))

\* completion texts the upstream model may return
Contents ==
    {ListText(2), FenceJson \o <<WS>> \o ListText(1) \o <<WS>> \o Fence, <<"n", "o">>}

\* what requests.post gives: status 0 stands for a network error; json says
\* whether the body is JSON holding choices[0].message.content
Upstreams ==
    {[status |-> 0, json |-> FALSE, content |-> <<>>],
     [status |-> 500, json |-> FALSE, content |-> <<>>],
     [status |-> 200, json |-> FALSE, content |-> <<>>]}
      \cup {[status |-> 200, json |-> TRUE, content |-> c] : c \in Contents}
NoUpstream == [status |-> 0, json |-> FALSE, content |-> <<>>]

\* what YouTubeTranscriptApi.fetch does
FetchFailures == {"VideoUnavailable", "TranscriptsDisabled", "NoTranscriptFound"}
FetchResults == {"ok"} \cup FetchFailures

\* note records of a deck, and what requests.get gives for a deck url (the
\* notes of a deck differ from one another)
NoteRecords == {[Front |-> "f1", Back |-> "b1"], [Front |-> "f2"], [Back |-> "b3"]}
Decks ==
    {[readable |-> FALSE, notes |-> <<>>]}
      \cup {[readable |-> TRUE, notes |-> n] :
               n \in {m \in SeqsUpTo(NoteRecords, MaxNotes) :
                        \A i, j \in 1..Len(m) : m[i] = m[j] => i = j}}
NoDeck == [readable |-> FALSE, notes |-> <<>>]
Downloads ==
    {[status |-> 0, deck |-> NoDeck], [status |-> 404, deck |-> NoDeck]}
      \cup {[status |-> 200, deck |-> d] : d \in Decks}
NoDownload == [status |-> 0, deck |-> NoDeck]

-----------------------------------------------------------------------------
(* Exceptions and responses.                                               *)

\* an exception: its class, str(e), and the status_code it carries (0: none)
Exc(type, msg) == [type |-> type, msg |-> msg, status |-> 0]
NoExc == Exc("", "")
str(e) == e.msg

\* line 5 binds HTTPException to http.client.HTTPException, an Exception
\* subclass whose constructor takes no keyword arguments: evaluating
\* HTTPException(status_code=..., detail=...) raises TypeError, and that is the
\* exception the raise statement lets out
HTTPException(status_code, det) ==
    Exc("TypeError", "HTTPException() takes no keyword arguments")

\* the exception of requests.post, raise_for_status and
\* response.json()["choices"][0]["message"]["content"], NoExc when there is none
ResponseError(u) ==
    IF u.status = 0 THEN Exc("ConnectionError", "connection failed")
    ELSE IF u.status \notin 200..299 THEN Exc("HTTPError", "500 Server Error")
    ELSE IF ~u.json THEN Exc("JSONDecodeError", "Expecting value")
    ELSE NoExc

Returned(key, val) == [kind |-> "response", key |-> key, val |-> val, exc |-> NoExc]
Raised(e) == [kind |-> "raised", key |-> "", val |-> JInvalid, exc |-> e]
NoOutcome == [kind |-> "none", key |-> "", val |-> JInvalid, exc |-> NoExc]

\* call_openrouter on the answer u of its post: the parsed content, or the
\* exception its except clause lets out
call_openrouter(u) ==
    LET e == ResponseError(u)
        v == json_loads(u.content)
        inner == IF e # NoExc THEN e
                 ELSE IF v = JInvalid THEN Exc("JSONDecodeError", "Expecting value")
                 ELSE NoExc
    IN  IF inner = NoExc THEN [ok |-> TRUE, val |-> v, exc |-> NoExc]
        ELSE [ok |-> FALSE, val |-> JInvalid,
              exc |-> HTTPException(500, "OpenRouter API error: " \o str(inner))]

\* a variant of ErrorDetail in which the chatbot routes put str(e) in the detail
ErrorDetailLeaky(rt, e) ==
    IF rt \in {"chatbot", "summarize"} THEN "Chatbot error: " \o str(e)
    ELSE ErrorPrefix(rt) \o str(e)

\* the detail string a route's except clause evaluates for the caught e
ErrorDetail(rt, e) ==
    IF rt \in {"chatbot", "summarize"} THEN ChatbotDetail
    ELSE ErrorPrefix(rt) \o str(e)

\* a variant of RouteRaise in which transcriptify gives each transcript-fetch
\* failure an exception with a status code of its own
RouteRaiseByCause(rt, e) ==
    IF rt = "transcriptify" /\ e.type \in FetchFailures
    THEN [type |-> "HTTPException", msg |-> str(e),
          status |-> CASE e.type = "VideoUnavailable" -> 404
                       [] e.type = "TranscriptsDisabled" -> 403
                       [] OTHER -> 400]
    ELSE HTTPException(500, ErrorPrefix(rt) \o str(e))

\* the exception that leaves a route's except clause for the caught e
RouteRaise(rt, e) == HTTPException(500, ErrorDetail(rt, e))

\* record.get(k, '')
Get(record, k) == IF k \in DOMAIN record THEN record[k] ELSE ""

\* a variant of CardsOf that puts each card in front of the earlier ones
RECURSIVE CardsOfReversed(_)
CardsOfReversed(notes) ==
    IF notes = <<>> THEN <<>>
    ELSE CardsOfReversed(Tail(notes))
           \o <<[front |-> Get(Head(notes), "Front"), back |-> Get(Head(notes), "Back")]>>

\* the loop of import_anki_from_url over reader.notes
RECURSIVE CardsOf(_)
CardsOf(notes) ==
    IF notes = <<>> THEN <<>>
    ELSE <<[front |-> Get(Head(notes), "Front"), back |-> Get(Head(notes), "Back")]>>
           \o CardsOf(Tail(notes))

\* ApkgReader(temp_path): the deck in the file at temp_path
ReadDeck(fs, temp_path) == fs[temp_path]

\* tempfile.mktemp: a name no file has
mktemp(fs) == CHOOSE n \in 1..(Cardinality(DOMAIN fs) + 1) :
                 n \notin DOMAIN fs /\ \A m \in 1..(n - 1) : m \in DOMAIN fs

-----------------------------------------------------------------------------
(* The process: requests are handled one after the other, because every    *)
(* handler is an async function that never awaits.                         *)

InitReqs ==
    /\ pc = [r \in Reqs |-> "idle"]
    /\ route = [r \in Reqs |-> "none"]
    /\ body = [r \in Reqs |-> EmptyBody]
    /\ vid = [r \in Reqs |-> <<>>]
    /\ fetched = [r \in Reqs |-> "none"]
    /\ steps = [r \in Reqs |-> <<>>]
    /\ calls = [r \in Reqs |-> 0]
    /\ upstream = [r \in Reqs |-> NoUpstream]
    /\ download = [r \in Reqs |-> NoDownload]
    /\ caught = [r \in Reqs |-> NoExc]
    /\ detail = [r \in Reqs |-> ""]
    /\ outcome = [r \in Reqs |-> NoOutcome]
    /\ files = <<>>
    /\ tmp = [r \in Reqs |-> 0]

InitFenceOff ==
    /\ fpc = "off"
    /\ fdoc = JInvalid
    /\ raw = <<>>
    /\ cleaned = <<>>
    /\ loaded = JInvalid

Init == InitReqs /\ InitFenceOff

\* the handler of r returns the response
Return(r, key, val) ==
    /\ outcome' = [outcome EXCEPT ![r] = Returned(key, val)]
    /\ pc' = [pc EXCEPT ![r] = "done"]
    /\ UNCHANGED <<caught, detail>>

\* the except clause of r's route catches e
Except(r, e) ==
    /\ caught' = [caught EXCEPT ![r] = e]
    /\ detail' = [detail EXCEPT ![r] = ErrorDetail(route[r], e)]
    /\ outcome' = [outcome EXCEPT ![r] = Raised(RouteRaise(route[r], e))]
    /\ pc' = [pc EXCEPT ![r] = "done"]

\* a request arrives once the requests before it are answered
Receive(r) ==
    /\ pc[r] = "idle"
    /\ \A q \in 1..(r - 1) : pc[q] = "done"
    /\ \E rt \in Routes : \E b \in Bodies(rt) :
         /\ route' = [route EXCEPT ![r] = rt]
         /\ body' = [body EXCEPT ![r] = b]
    /\ pc' = [pc EXCEPT ![r] = "received"]
    /\ UNCHANGED <<vid, fetched, steps, calls, upstream, download, caught, detail,
                   outcome, files, tmp, fenceVars>>

\* root, lines 84-86
Root(r) ==
    /\ pc[r] = "received" /\ route[r] = "root"
    /\ Return(r, "message", JStr(<<"Nougat: Question Synthesis">>))
    /\ UNCHANGED <<route, body, vid, fetched, steps, calls, upstream, download, files,
                   tmp, fenceVars>>

\* transcriptify, line 290: video_id = to.text.split("=")[1]
SplitVideoId(r) ==
    /\ pc[r] = "received" /\ route[r] = "transcriptify"
    /\ LET pieces == Split(body[r].text, "=")
       IN  IF Len(pieces) < 2
           THEN /\ Except(r, Exc("IndexError", "list index out of range"))
                /\ UNCHANGED vid
           ELSE /\ vid' = [vid EXCEPT ![r] = pieces[2]]
                /\ pc' = [pc EXCEPT ![r] = "split"]
                /\ UNCHANGED <<caught, detail, outcome>>
    /\ steps' = [steps EXCEPT ![r] = Append(@, "split")]
    /\ UNCHANGED <<route, body, fetched, calls, upstream, download, files, tmp,
                   fenceVars>>

\* a variant of FetchTranscript that goes on after a failed fetch
FetchTranscriptLenient(r) ==
    /\ pc[r] = "split"
    /\ \E res \in FetchResults : fetched' = [fetched EXCEPT ![r] = res]
    /\ pc' = [pc EXCEPT ![r] = "fetched"]
    /\ steps' = [steps EXCEPT ![r] = Append(@, "fetch")]
    /\ UNCHANGED <<route, body, vid, calls, upstream, download, caught, detail,
                   outcome, files, tmp, fenceVars>>

\* transcriptify, lines 291-297: the transcript is fetched
FetchTranscript(r) ==
    /\ pc[r] = "split"
    /\ \E res \in FetchResults :
         /\ fetched' = [fetched EXCEPT ![r] = res]
         /\ IF res = "ok"
            THEN /\ pc' = [pc EXCEPT ![r] = "fetched"]
                 /\ UNCHANGED <<caught, detail, outcome>>
            ELSE Except(r, Exc(res, res \o " for the video"))
    /\ steps' = [steps EXCEPT ![r] = Append(@, "fetch")]
    /\ UNCHANGED <<route, body, vid, calls, upstream, download, files, tmp,
                   fenceVars>>

\* the f-string of a prompt route is evaluated
BuildPrompt(r) ==
    /\ \/ pc[r] = "received" /\ route[r] \in PromptRoutes \ {"transcriptify"}
       \/ pc[r] = "fetched"
    /\ steps' = [steps EXCEPT ![r] = Append(@, "build")]
    /\ pc' = [pc EXCEPT ![r] = "prompt"]
    /\ UNCHANGED <<route, body, vid, fetched, calls, upstream, download, caught, detail,
                   outcome, files, tmp, fenceVars>>

\* a variant of Post that posts once more when the call failed
PostRetry(r, u) ==
    /\ upstream' = [upstream EXCEPT ![r] = u]
    /\ calls' = [calls EXCEPT ![r] = IF ResponseError(u) # NoExc THEN @ + 2 ELSE @ + 1]

\* requests.post to the completion API, answered by u
Post(r, u) ==
    /\ upstream' = [upstream EXCEPT ![r] = u]
    /\ calls' = [calls EXCEPT ![r] = @ + 1]

\* json.loads runs on the completion text of a route that got u
ParsesContent(rt, u) ==
    /\ rt \in GenRoutes \cup {"feynman"}
    /\ ResponseError(u) = NoExc

\* the steps of a request from its post on
PostSteps(rt, u) ==
    IF ParsesContent(rt, u) THEN <<"post", "parse">> ELSE <<"post">>

\* the first n items of a JSON array, any other value as it is
FirstItems(v, n) ==
    IF v.t = "arr" /\ Len(v.items) > n THEN JArr(SubSeq(v.items, 1, n)) ELSE v

\* a variant of Generation that cuts the result to number_of_questions
GenerationTrimmed(r) ==
    /\ pc[r] = "prompt" /\ route[r] \in GenRoutes
    /\ \E u \in Upstreams :
         /\ Post(r, u)
         /\ LET res == call_openrouter(u)
            IN  IF res.ok
                THEN Return(r, ResponseKey(route[r]), FirstItems(res.val, body[r].nq))
                ELSE Except(r, res.exc)
         /\ steps' = [steps EXCEPT ![r] = @ \o PostSteps(route[r], u)]
    /\ UNCHANGED <<route, body, vid, fetched, download, files, tmp, fenceVars>>

\* mcqtext, tftext, fitb, cards, keyterms from call_openrouter on
Generation(r) ==
    /\ pc[r] = "prompt" /\ route[r] \in GenRoutes
    /\ \E u \in Upstreams :
         /\ Post(r, u)
         /\ LET res == call_openrouter(u)
            IN  IF res.ok THEN Return(r, ResponseKey(route[r]), res.val)
                ELSE Except(r, res.exc)
         /\ steps' = [steps EXCEPT ![r] = @ \o PostSteps(route[r], u)]
    /\ UNCHANGED <<route, body, vid, fetched, download, files, tmp, fenceVars>>

\* feynman, lines 267-284
Feynman(r) ==
    /\ pc[r] = "prompt" /\ route[r] = "feynman"
    /\ \E u \in Upstreams :
         /\ Post(r, u)
         /\ LET e == ResponseError(u)
                result == json_loads(CleanFences(u.content))
            IN  IF e # NoExc THEN Except(r, e)
                ELSE IF result = JInvalid
                     THEN Except(r, Exc("JSONDecodeError", "Expecting value"))
                ELSE Return(r, "", result)
         /\ steps' = [steps EXCEPT ![r] = @ \o PostSteps(route[r], u)]
    /\ UNCHANGED <<route, body, vid, fetched, download, files, tmp, fenceVars>>

\* a variant of TextCompletion that parses the completion text as JSON
TextCompletionParsed(r) ==
    /\ pc[r] = "prompt" /\ route[r] \in {"transcriptify", "chatbot", "summarize"}
    /\ \E u \in Upstreams :
         /\ Post(r, u)
         /\ LET e == ResponseError(u)
                result == json_loads(u.content)
            IN  IF e # NoExc THEN Except(r, e)
                ELSE IF result = JInvalid
                     THEN Except(r, Exc("JSONDecodeError", "Expecting value"))
                ELSE Return(r, ResponseKey(route[r]), result)
         /\ steps' = [steps EXCEPT ![r] =
                        @ \o (IF ResponseError(u) = NoExc THEN <<"post", "parse">>
                              ELSE <<"post">>)]
    /\ UNCHANGED <<route, body, vid, fetched, download, files, tmp, fenceVars>>

\* transcriptify (lines 307-322), chatbot (370-385), summarize (409-424): the
\* completion text is returned as it is
TextCompletion(r) ==
    /\ pc[r] = "prompt" /\ route[r] \in {"transcriptify", "chatbot", "summarize"}
    /\ \E u \in Upstreams :
         /\ Post(r, u)
         /\ LET e == ResponseError(u)
            IN  IF e # NoExc THEN Except(r, e)
                ELSE Return(r, ResponseKey(route[r]), JStr(u.content))
         /\ steps' = [steps EXCEPT ![r] = @ \o PostSteps(route[r], u)]
    /\ UNCHANGED <<route, body, vid, fetched, download, files, tmp, fenceVars>>

\* the cards of every readable deck among the files 1..n, oldest first
RECURSIVE CardsOfFiles(_, _)
CardsOfFiles(fs, n) ==
    IF n = 0 THEN <<>>
    ELSE CardsOfFiles(fs, n - 1)
           \o (IF n \in DOMAIN fs /\ fs[n].readable THEN CardsOf(fs[n].notes) ELSE <<>>)

\* a variant of ImportDeck whose result list lives at module level, so that it
\* keeps the cards of the earlier requests
ImportDeckSharedResult(r) ==
    /\ pc[r] = "received" /\ route[r] = "import-anki"
    /\ \E d \in Downloads :
         LET temp_path == mktemp(files)
         IN  /\ download' = [download EXCEPT ![r] = d]
             /\ IF d.status = 0
                THEN /\ Except(r, Exc("ConnectionError", "connection failed"))
                     /\ UNCHANGED <<files, tmp>>
                ELSE IF d.status \notin 200..299
                THEN /\ Except(r, Exc("HTTPError", "404 Client Error"))
                     /\ UNCHANGED <<files, tmp>>
                ELSE /\ files' = (temp_path :> d.deck) @@ files
                     /\ tmp' = [tmp EXCEPT ![r] = temp_path]
                     /\ IF ~ReadDeck(files', temp_path).readable
                        THEN Except(r, Exc("BadZipFile", "File is not a zip file"))
                        ELSE Return(r, "cards",
                                    [t |-> "cards", s |-> <<>>,
                                     items |-> CardsOfFiles(files', temp_path)])
    /\ steps' = [steps EXCEPT ![r] = Append(@, "get")]
    /\ UNCHANGED <<route, body, vid, fetched, calls, upstream, fenceVars>>

\* import_anki_from_url, lines 328-343: the deck is downloaded, written to a
\* temporary file and read
ImportDeck(r) ==
    /\ pc[r] = "received" /\ route[r] = "import-anki"
    /\ \E d \in Downloads :
         LET temp_path == mktemp(files)
         IN  /\ download' = [download EXCEPT ![r] = d]
             /\ IF d.status = 0
                THEN /\ Except(r, Exc("ConnectionError", "connection failed"))
                     /\ UNCHANGED <<files, tmp>>
                ELSE IF d.status \notin 200..299
                THEN /\ Except(r, Exc("HTTPError", "404 Client Error"))
                     /\ UNCHANGED <<files, tmp>>
                ELSE /\ files' = (temp_path :> d.deck) @@ files
                     /\ tmp' = [tmp EXCEPT ![r] = temp_path]
                     /\ IF ~ReadDeck(files', temp_path).readable
                        THEN Except(r, Exc("BadZipFile", "File is not a zip file"))
                        ELSE Return(r, "cards",
                                    [t |-> "cards", s |-> <<>>,
                                     items |-> CardsOf(ReadDeck(files', temp_path).notes)])
    /\ steps' = [steps EXCEPT ![r] = Append(@, "get")]
    /\ UNCHANGED <<route, body, vid, fetched, calls, upstream, fenceVars>>

Next ==
    \E r \in Reqs :
       \/ Receive(r)
       \/ Root(r)
       \/ SplitVideoId(r)
       \/ FetchTranscript(r)
       \/ BuildPrompt(r)
       \/ Generation(r)
       \/ Feynman(r)
       \/ TextCompletion(r)
       \/ ImportDeck(r)

Spec == Init /\ [][Next]_vars

-----------------------------------------------------------------------------
(* The fence stripping of feynman (lines 279-282) on its own: a completion *)
(* text is drawn, cleaned and loaded.                                      *)

\* characters of the string values of the documents
BodyChars == {BT, "j", "s", "o", "n"}

\* the JSON documents: a string, or an array holding one
FenceDocs ==
    {JStr(b) : b \in SeqsUpTo(BodyChars, MaxBody)}
      \cup {JArr(<<JStr(b)>>) : b \in SeqsUpTo(BodyChars, MaxBody)}

\* what the model puts before and after a document
FencePrefixes == {<<>>, Fence, FenceJson, FenceJson \o <<WS>>}
FenceSuffixes == {<<>>, Fence, <<WS>> \o Fence}

InitFence ==
    /\ InitReqs
    /\ fpc = "raw"
    /\ fdoc \in FenceDocs
    /\ \E a \in FencePrefixes, z \in FenceSuffixes : raw = a \o json_dumps(fdoc) \o z
    /\ cleaned = <<>>
    /\ loaded = JInvalid

\* line 280
FenceClean ==
    /\ fpc = "raw"
    /\ cleaned' = CleanFences(raw)
    /\ fpc' = "cleaned"
    /\ UNCHANGED <<fdoc, raw, loaded, reqVars>>

\* line 281
FenceLoads ==
    /\ fpc = "cleaned"
    /\ loaded' = json_loads(cleaned)
    /\ fpc' = "loaded"
    /\ UNCHANGED <<fdoc, raw, cleaned, reqVars>>

NextFence == FenceClean \/ FenceLoads

SpecFence == InitFence /\ [][NextFence]_vars

-----------------------------------------------------------------------------
(* Properties of the service.                                              *)

Done(r) == pc[r] = "done"
Failed(r) == Done(r) /\ outcome[r].kind = "raised"
Answered(r) == Done(r) /\ outcome[r].kind = "response"

\* C1: every exception raised inside a POST handler is caught by the route's
\* except clause, and what leaves the handler is an HTTPException carrying
\* status_code 500 and the detail string the clause built.
C1_ErrorsLeaveAs500 ==
    \A r \in Reqs :
       Failed(r) /\ route[r] \in PostRoutes =>
          /\ caught[r] # NoExc
          /\ outcome[r].exc = [type |-> "HTTPException", msg |-> detail[r], status |-> 500]

\* C2: every route, root and import-anki included, answers a request by the
\* same three steps in this order: build the prompt, post once to the
\* completion API, parse the completion text as JSON.
C2_SameThreeSteps ==
    \A r \in Reqs : Answered(r) => steps[r] = <<"build", "post", "parse">>

StepsOf(rt) ==
    CASE rt \in GenRoutes \cup {"feynman"} -> <<"build", "post", "parse">>
      [] rt \in {"chatbot", "summarize"} -> <<"build", "post">>
      [] rt = "transcriptify" -> <<"split", "fetch", "build", "post">>
      [] rt = "import-anki" -> <<"get">>
      [] OTHER -> <<>>

PostsIn(seq) == Cardinality({i \in 1..Len(seq) : seq[i] = "post"})

\* C2, amended: mcqtext, tftext, fitb, cards, keyterms and feynman build the
\* prompt, post once and parse the completion text as JSON, in this order;
\* chatbot and summarize build and post once but return the text unparsed;
\* transcriptify splits the text and fetches the transcript first and returns
\* the text unparsed; import-anki only downloads the deck; root does nothing
\* of these.  A request that ends early did a prefix of its route's steps.
C2_StepsByRoute ==
    \A r \in Reqs :
       /\ Answered(r) => steps[r] = StepsOf(route[r])
       /\ steps[r] # <<>> =>
             /\ Len(steps[r]) <= Len(StepsOf(route[r]))
             /\ steps[r] = SubSeq(StepsOf(route[r]), 1, Len(steps[r]))
       /\ calls[r] = PostsIn(steps[r])

C2_Witness ==
    \E r1, r2 \in Reqs :
       /\ Answered(r1) /\ route[r1] \in GenRoutes
       /\ Answered(r2) /\ route[r2] = "chatbot"

\* C3: transcriptify gives the three transcript-fetch failures status codes
\* that differ from one another and from the status of any other failure of
\* the route.
C3_DistinctStatuses ==
    \A r1, r2 \in Reqs :
       /\ Failed(r1) /\ route[r1] = "transcriptify"
       /\ Failed(r2) /\ route[r2] = "transcriptify"
       /\ caught[r1].type \in FetchFailures
       /\ caught[r2].type # caught[r1].type
       => outcome[r1].exc.status # outcome[r2].exc.status

\* C3, amended: transcriptify does not tell the transcript-fetch failures
\* apart: each is caught by the route's one except clause and leaves the
\* handler as every other failure of the route does, with the same exception
\* class and no status code of its own.
C3_FailuresAlike ==
    \A r1, r2 \in Reqs :
       /\ r1 < r2
       /\ route[r1] = "transcriptify" /\ Failed(r1)
       /\ route[r2] = "transcriptify" /\ Failed(r2)
       => /\ outcome[r1].exc.type = outcome[r2].exc.type
          /\ outcome[r1].exc.status = outcome[r2].exc.status

C3_Witness ==
    \E r1, r2 \in Reqs :
       /\ Failed(r1) /\ route[r1] = "transcriptify"
       /\ Failed(r2) /\ route[r2] = "transcriptify"
       /\ caught[r1].type = "VideoUnavailable"
       /\ caught[r2].type \in {"TranscriptsDisabled", "NoTranscriptFound", "IndexError"}

\* the call of r to the completion API failed: network error, non-2xx status
\* or a body that cannot be read
CallFailed(r) == calls[r] >= 1 /\ ResponseError(upstream[r]) # NoExc

\* C4: no request ever makes a second call to the completion API, and once
\* its call has failed the request makes no further call and its next step
\* is its error outcome.
C4_NoRetry ==
    [][\A r \in Reqs :
          /\ calls'[r] <= 1
          /\ calls'[r] > calls[r] /\ ResponseError(upstream'[r]) # NoExc =>
                pc'[r] = "done" /\ outcome'[r].kind = "raised"
          /\ CallFailed(r) =>
                calls'[r] = calls[r] /\ outcome'[r] = outcome[r]]_vars

C4_Witness ==
    \E r \in Reqs : Failed(r) /\ CallFailed(r) /\ calls[r] = 1

\* the upstream answer is 2xx and its message content is valid JSON
ValidCompletion(u) ==
    u.status \in 200..299 /\ u.json /\ json_loads(u.content) # JInvalid

\* C5: a generation route whose upstream answer is 2xx with valid JSON content
\* answers with one key (questions, cards or terms) whose value is the parsed
\* content unchanged, whatever number_of_questions was.
C5_ForwardedUnchanged ==
    \A r \in Reqs :
       Done(r) /\ route[r] \in GenRoutes /\ ValidCompletion(upstream[r]) =>
          /\ outcome[r].kind = "response"
          /\ outcome[r].val = json_loads(upstream[r].content)
          /\ outcome[r].key = (CASE route[r] = "cards" -> "cards"
                                 [] route[r] = "keyterms" -> "terms"
                                 [] OTHER -> "questions")

C5_Witness ==
    \E r \in Reqs :
       /\ Answered(r) /\ route[r] = "mcqtext"
       /\ outcome[r].val.t = "arr"
       /\ Len(outcome[r].val.items) # body[r].nq

\* C6: whenever the completion text is a JSON document, bare or inside a
\* markdown fence, feynman's cleaning and loading give exactly the value of
\* that document.
C6_FenceStrippingKeepsDocument ==
    fpc = "loaded" => loaded = fdoc

\* the two requests have the same body and got the same answers from outside
SameInputs(r1, r2) ==
    /\ route[r1] = route[r2]
    /\ body[r1] = body[r2]
    /\ fetched[r1] = fetched[r2]
    /\ upstream[r1] = upstream[r2]
    /\ download[r1] = download[r2]

\* C7: the outcome of a request and the calls it makes depend only on its own
\* body and on the answers to its own calls: two requests with the same body
\* and the same answers end alike, whatever was handled before them.
C7_Stateless ==
    \A r1, r2 \in Reqs :
       r1 < r2 /\ Done(r1) /\ Done(r2) /\ SameInputs(r1, r2) =>
          /\ outcome[r1] = outcome[r2]
          /\ calls[r1] = calls[r2]
          /\ steps[r1] = steps[r2]

C7_Witness ==
    \E r1, r2 \in Reqs :
       /\ r1 # r2 /\ Done(r1) /\ Done(r2) /\ SameInputs(r1, r2)
       /\ route[r1] = "import-anki"
       /\ Answered(r1) /\ outcome[r1].val.items # <<>>
       /\ tmp[r1] # tmp[r2]

HasEq(text) == \E i \in 1..Len(text) : text[i] = "="

\* v is what stands between the first "=" of text and the next one (or the end)
IsSecondPiece(text, v) ==
    \E i \in 1..Len(text) :
       /\ text[i] = "="
       /\ \A k \in 1..(i - 1) : text[k] # "="
       /\ i + Len(v) <= Len(text)
       /\ v = SubSeq(text, i + 1, i + Len(v))
       /\ ~HasEq(v)
       /\ i + Len(v) = Len(text) \/ text[i + Len(v) + 1] = "="

\* C8: in transcriptify the completion API is called only after the video id
\* (the second piece of the text split on "=") was taken and the transcript
\* was fetched; a text without "=" or a failed fetch ends in the error outcome
\* with no call to the completion API.
C8_FetchBeforeCall ==
    \A r \in Reqs :
       route[r] = "transcriptify" =>
          /\ calls[r] > 0 =>
                /\ fetched[r] = "ok"
                /\ IsSecondPiece(body[r].text, vid[r])
                /\ SubSeq(steps[r], 1, 4) = <<"split", "fetch", "build", "post">>
          /\ fetched[r] # "none" => IsSecondPiece(body[r].text, vid[r])
          /\ Done(r) /\ (~HasEq(body[r].text) \/ fetched[r] \in FetchFailures) =>
                outcome[r].kind = "raised" /\ calls[r] = 0

C8_Witness ==
    \E r1, r2 \in Reqs :
       /\ route[r1] = "transcriptify" /\ Done(r1) /\ calls[r1] = 1
       /\ body[r1].text = <<"u", "=", "v", "=", "w">>
       /\ route[r2] = "transcriptify" /\ Failed(r2) /\ fetched[r2] \in FetchFailures

\* C9: import-anki with a 2xx download of a readable deck answers
\* {'cards': L}, L holding one entry per note in the deck's order with the
\* note's Front and Back ('' for a field the record lacks); it makes no call
\* to the completion API; and the temporary file it wrote stays where it is,
\* on success and on failure.
C9_DeckImported ==
    \A r \in Reqs :
       /\ Done(r) /\ route[r] = "import-anki" =>
             /\ calls[r] = 0
             /\ download[r].status \in 200..299 /\ download[r].deck.readable =>
                   LET notes == download[r].deck.notes
                       L == outcome[r].val.items
                   IN  /\ outcome[r].kind = "response"
                       /\ outcome[r].key = "cards"
                       /\ Len(L) = Len(notes)
                       /\ \A i \in 1..Len(notes) :
                             /\ L[i].front = (IF "Front" \in DOMAIN notes[i]
                                              THEN notes[i].Front ELSE "")
                             /\ L[i].back = (IF "Back" \in DOMAIN notes[i]
                                             THEN notes[i].Back ELSE "")
             /\ download[r].status \in 200..299 => tmp[r] # 0
       /\ tmp[r] # 0 => tmp[r] \in DOMAIN files /\ files[tmp[r]] = download[r].deck

C9_Witness ==
    \E r1, r2 \in Reqs :
       /\ Answered(r1) /\ route[r1] = "import-anki"
       /\ Len(download[r1].deck.notes) = 2
       /\ "Back" \notin DOMAIN download[r1].deck.notes[1]
       /\ Failed(r2) /\ route[r2] = "import-anki" /\ tmp[r2] # 0

\* C10: a failing chatbot or summarize request ends the same way whatever the
\* failure was, its detail being the fixed 'Chatbot functionality failed', so
\* no text of the exception reaches the caller; the other POST routes build
\* their detail from str(e) of the exception they caught.
C10_ChatbotErrorsAlike ==
    /\ \A r1, r2 \in Reqs :
          /\ r1 <= r2
          /\ route[r1] \in {"chatbot", "summarize"} /\ Failed(r1)
          /\ route[r2] \in {"chatbot", "summarize"} /\ Failed(r2)
          => /\ outcome[r1] = outcome[r2]
             /\ detail[r1] = detail[r2]
             /\ detail[r1] = "Chatbot functionality failed"
    /\ \A r \in Reqs :
          Failed(r) /\ route[r] \notin {"chatbot", "summarize"} =>
             detail[r] = ErrorPrefix(route[r]) \o caught[r].msg

C10_Witness ==
    \E r1, r2 \in Reqs :
       /\ Failed(r1) /\ route[r1] = "chatbot"
       /\ Failed(r2) /\ route[r2] = "summarize"
       /\ caught[r1].msg # caught[r2].msg

====
